---- MODULE Spec2Model ----
(***************************************************************************)
(* tutel: a Project (name + ordered task list) with its backing file.      *)
(* Model of src/src/project.rs: the task collection operations, index      *)
(* allocation (next_index) and load/save against one backing file; and of  *)
(* src/src/lib.rs: new_project and the upward search load_project_rec.     *)
(***************************************************************************)
EXTENDS Integers, Sequences, FiniteSets, TLC

VARIABLES
    name,     \* Project.data.name
    tasks,    \* Project.data.tasks : Vec<Task>, a sequence of Task records
    path,     \* Project.path
    steps,    \* Project.steps
    file,     \* content of the backing file at `path` (Absent, or Present(text))
    last,     \* the operation that ran last, its arguments and its result
    pre,      \* name, tasks, path and file as they were when `last` began
    adds,     \* number of add() calls so far
    fromNew,  \* TRUE while the in-memory project descends from Project::new
    dirs,     \* a directory chain from the root (dirs[1]) downwards: for each
              \* directory, what it holds under the name PROJECT_FILE_NAME
    procs,    \* two processes working on the backing file at once: for each
              \* its position, its own in-memory project and its write buffer
    writer    \* the process whose save() returned last, 0 when none has

vars ==
    <<name, tasks, path, steps, file, last, pre, adds, fromNew, dirs, procs,
      writer>>

-----------------------------------------------------------------------------
(* Bounds of the model *)

\* add() is not called on a list that already holds MaxTasks tasks
MaxTasks == 3
\* at most MaxAdds add() calls in Spec
MaxAdds == 3
\* SpecFile: at most FileMaxAdds add() calls
FileMaxAdds == 2
\* SpecLong: add() is not called on a list that already holds LongMaxTasks
LongMaxTasks == 3
\* SpecLong: at most LongMaxAdds add() calls
LongMaxAdds == 1002
\* SpecDisc: directory chains are at most MaxDirs deep, the root included
MaxDirs == 3
\* SpecTwo: each process changes its project at most MaxProcOps times
MaxProcOps == 1

(* Program constant: the wrap-around threshold of next_index *)
WrapIndex == 999

\* task descriptions and project names used as inputs
Descs == {"a", "b"}
Names == {"p"}
ThePath == "/work/.tutel.toml"

-----------------------------------------------------------------------------
(* Task and the pure part of every Project method *)

\* Task::new(name, completed, index)
Task(d, c, i) == [desc |-> d, index |-> i, completed |-> c]

RECURSIVE highest_from(_, _, _)
\* the loop of next_index: `highest` after visiting tasks k..Len(ts)
highest_from(ts, k, highest) ==
    IF k > Len(ts) THEN highest
    ELSE highest_from(ts, k + 1,
                      IF ts[k].index > highest THEN ts[k].index ELSE highest)

\* next_index with the wrap test written `>` instead of `>=`
next_index_late_wrap(ts) ==
    IF Len(ts) = 0 THEN 0
    ELSE LET highest == highest_from(ts, 1, 0)
         IN  IF highest > WrapIndex THEN 0 ELSE highest + 1

\* next_index wrapping one index early
next_index_early_wrap(ts) ==
    IF Len(ts) = 0 THEN 0
    ELSE LET highest == highest_from(ts, 1, 0)
         IN  IF highest >= WrapIndex - 1 THEN 0 ELSE highest + 1

\* next_index handing out the lowest index not in use
next_index_gap_fill(ts) ==
    CHOOSE i \in 0..Len(ts) :
        /\ \A k \in 1..Len(ts) : ts[k].index # i
        /\ \A j \in 0..(i - 1) : \E k \in 1..Len(ts) : ts[k].index = j

\* Project::next_index
next_index(ts) ==
    IF Len(ts) = 0 THEN 0
    ELSE LET highest == highest_from(ts, 1, 0)
         IN  IF highest >= WrapIndex THEN 0 ELSE highest + 1

RECURSIVE scan_from(_, _, _)
\* the loop of get_task_mut: position of the first task at or after k whose
\* index is `index`, 0 when the loop falls through to bail!
scan_from(ts, k, index) ==
    IF k > Len(ts) THEN 0
    ELSE IF ts[k].index = index THEN k
    ELSE scan_from(ts, k + 1, index)

RECURSIVE scan_back(_, _, _)
\* a lookup walking the list from its end: position of the last task at or
\* before k whose index is `index`
scan_back(ts, k, index) ==
    IF k < 1 THEN 0
    ELSE IF ts[k].index = index THEN k
    ELSE scan_back(ts, k - 1, index)

\* get_task_mut iterating in reverse (iter_mut().rev())
get_task_mut_last(ts, index) == scan_back(ts, Len(ts), index)

\* Project::get_task_mut: the position of the task the returned reference
\* points to, 0 for Err("no task with index ..")
get_task_mut(ts, index) == scan_from(ts, 1, index)

\* Project::add: push Task::new(name, completed, self.next_index())
add(ts, d, c) == Append(ts, Task(d, c, next_index(ts)))

\* remove deleting only the first task found (position lookup + Vec::remove)
remove_first_only(ts, index) ==
    LET p == get_task_mut(ts, index)
    IN  IF p = 0 THEN ts ELSE SubSeq(ts, 1, p - 1) \o SubSeq(ts, p + 1, Len(ts))

\* remove with the retain test written `<` instead of `!=`
remove_lt(ts, index) == SelectSeq(ts, LAMBDA t : t.index < index)

\* remove done with Vec::swap_remove on every match: the last task moves
\* into the freed slot
RECURSIVE remove_swap(_, _)
remove_swap(ts, index) ==
    LET p == get_task_mut(ts, index)
    IN  IF p = 0 THEN ts
        ELSE remove_swap(IF p = Len(ts) THEN SubSeq(ts, 1, p - 1)
                         ELSE [k \in 1..(Len(ts) - 1) |->
                                  IF k = p THEN ts[Len(ts)] ELSE ts[k]],
                         index)

\* Project::remove: tasks.retain(|t| t.index != index)
remove(ts, index) == SelectSeq(ts, LAMBDA t : t.index # index)

\* Project::remove_all: tasks.clear()
remove_all(ts) == << >>

\* Project::remove_completed: tasks.retain(|t| !t.completed)
remove_completed(ts) == SelectSeq(ts, LAMBDA t : ~t.completed)

\* mark_completion_all whose loop stops one task early
mark_completion_all_skip_last(ts, c) ==
    [k \in 1..Len(ts) |->
        IF k < Len(ts) THEN [ts[k] EXCEPT !.completed = c] ELSE ts[k]]

\* Project::mark_completion_all
mark_completion_all(ts, c) == [k \in 1..Len(ts) |-> [ts[k] EXCEPT !.completed = c]]

\* mark_completion ignoring its `completed` argument
mark_completion_always_true(ts, index, c) ==
    LET p == get_task_mut(ts, index)
    IN  IF p = 0 THEN ts ELSE [ts EXCEPT ![p].completed = TRUE]

\* Project::mark_completion: the task list afterwards (unchanged on error)
mark_completion(ts, index, c) ==
    LET p == get_task_mut(ts, index)
    IN  IF p = 0 THEN ts ELSE [ts EXCEPT ![p].completed = c]

\* Project::mark_completion: its Result
mark_completion_result(ts, index) ==
    IF get_task_mut(ts, index) = 0 THEN "IndexNotFound" ELSE "Ok"

-----------------------------------------------------------------------------
(* The persisted representation.  A file is a sequence of lines `key = value`; *)
(* a value is the sequence of characters written for it.                   *)

Digits == << "0", "1", "2", "3", "4", "5", "6", "7", "8", "9" >>

RECURSIVE fmt_int(_)
\* the decimal digits of a non-negative integer
fmt_int(n) == IF n < 10 THEN << Digits[n + 1] >>
              ELSE fmt_int(n \div 10) \o << Digits[(n % 10) + 1] >>

digit_val(ch) == IF \E v \in 0..9 : Digits[v + 1] = ch
                 THEN CHOOSE v \in 0..9 : Digits[v + 1] = ch
                 ELSE -1

RECURSIVE parse_int(_, _)
\* the integer written by the first k characters of `chars`, -1 when a
\* character is not a digit or there is none
parse_int(chars, k) ==
    IF Len(chars) = 0 THEN -1
    ELSE IF k = 0 THEN 0
    ELSE LET hi == parse_int(chars, k - 1)
             lo == digit_val(chars[k])
         IN  IF hi < 0 \/ lo < 0 THEN -1 ELSE hi * 10 + lo

fmt_bool(b) == IF b THEN << "true" >> ELSE << "false" >>
fmt_str(str) == << "'", str, "'" >>

is_bool(chars) == chars = << "true" >> \/ chars = << "false" >>
is_str(chars) == Len(chars) = 3 /\ chars[1] = "'" /\ chars[3] = "'"

Line(k, v) == [key |-> k, val |-> v]

RECURSIVE ser_tasks(_, _)
\* one [[tasks]] table per task, in sequence order
ser_tasks(ts, k) ==
    IF k > Len(ts) THEN << >>
    ELSE << Line("[[tasks]]", << >>),
            Line("desc", fmt_str(ts[k].desc)),
            Line("completed", fmt_bool(ts[k].completed)),
            Line("index", fmt_int(ts[k].index)) >> \o ser_tasks(ts, k + 1)

\* toml::to_string_pretty(&ProjectData): name first, then the task tables
to_string_pretty(n, ts) == << Line("name", fmt_str(n)) >> \o ser_tasks(ts, 1)

ParseError == [ok |-> FALSE, name |-> "", tasks |-> << >>]

RECURSIVE de_tasks(_, _)
\* the tasks parsed from lines k.. of text: [ok, tasks]
de_tasks(text, k) ==
    IF k > Len(text) THEN [ok |-> TRUE, tasks |-> << >>]
    ELSE IF k + 3 > Len(text) THEN [ok |-> FALSE, tasks |-> << >>]
    ELSE IF \/ text[k].key # "[[tasks]]"
            \/ text[k + 1].key # "desc" \/ ~is_str(text[k + 1].val)
            \/ text[k + 2].key # "completed" \/ ~is_bool(text[k + 2].val)
            \/ text[k + 3].key # "index"
            \/ parse_int(text[k + 3].val, Len(text[k + 3].val)) < 0
         THEN [ok |-> FALSE, tasks |-> << >>]
    ELSE LET rest == de_tasks(text, k + 4)
             t == Task(text[k + 1].val[2],
                       text[k + 2].val = << "true" >>,
                       parse_int(text[k + 3].val, Len(text[k + 3].val)))
         IN  [ok |-> rest.ok, tasks |-> IF rest.ok THEN << t >> \o rest.tasks ELSE << >>]

\* toml::from_str::<ProjectData>: [ok, name, tasks]
from_str(text) ==
    IF Len(text) = 0 \/ text[1].key # "name" \/ ~is_str(text[1].val) THEN ParseError
    ELSE LET ts == de_tasks(text, 2)
         IN  IF ~ts.ok THEN ParseError
             ELSE [ok |-> TRUE, name |-> text[1].val[2], tasks |-> ts.tasks]

\* the backing file: absent, or present with a text
Absent == [exists |-> FALSE, text |-> << >>]
Present(text) == [exists |-> TRUE, text |-> text]

\* Project::save, the content handed to fs::write
save_content(n, ts) == to_string_pretty(n, ts)

\* Project::load, the outcome of reading and parsing file f:
\* [res, name, tasks]
load(f) ==
    IF ~f.exists THEN [res |-> "IoError", name |-> "", tasks |-> << >>]
    ELSE LET data == from_str(f.text)
         IN  IF ~data.ok THEN [res |-> "ParseError", name |-> "", tasks |-> << >>]
             ELSE [res |-> "Ok", name |-> data.name, tasks |-> data.tasks]

-----------------------------------------------------------------------------
(* lib.rs: project creation in a directory and the upward search.  A       *)
(* directory is named by its depth in the chain `dirs`, the root being 1.   *)

PROJECT_FILE_NAME == ".tutel.toml"

\* what a directory can hold under PROJECT_FILE_NAME: nothing, a directory,
\* or a regular file; `access` tells whether the process may read and write
\* the file
NoEntry == [kind |-> "none", access |-> FALSE, text |-> << >>]
SubDir == [kind |-> "dir", access |-> FALSE, text |-> << >>]
LockedFile == [kind |-> "file", access |-> FALSE, text |-> << >>]
RegularFile(text) == [kind |-> "file", access |-> TRUE, text |-> text]

\* Path::join(PROJECT_FILE_NAME)
Join(dir) == [dir |-> dir, file |-> PROJECT_FILE_NAME]

\* the Project a function of lib.rs returns
ProjectValue(n, ts, p, st) == [name |-> n, tasks |-> ts, path |-> p, steps |-> st]

NoProject == ProjectValue("", << >>, Join(0), 0)

\* has_project(path): Some(path.join(PROJECT_FILE_NAME)) when that exists
\* and is a file
has_project(ds, dir) ==
    LET project == Join(dir)
    IN  IF ds[dir].kind # "none" /\ ds[dir].kind = "file"
        THEN [some |-> TRUE, path |-> project]
        ELSE [some |-> FALSE, path |-> project]

\* what fs::read_to_string sees at a directory entry
read_entry(e) == IF e.kind = "file" /\ e.access THEN Present(e.text) ELSE Absent

\* Project::load(project_file) as load_project_rec calls it: the caller
\* passes no step count, the project returned carries steps 0
load_at(ds, project_file) ==
    LET r == load(read_entry(ds[project_file.dir]))
    IN  IF r.res = "Ok"
        THEN [res |-> "Ok", project |-> ProjectValue(r.name, r.tasks, project_file, 0)]
        ELSE [res |-> r.res, project |-> NoProject]

RECURSIVE load_project_rec_skip_bad(_, _)
\* an upward search that goes on to the parent when a project file does not
\* load
load_project_rec_skip_bad(ds, dir) ==
    IF dir < 1 THEN [res |-> "NotFound", project |-> NoProject]
    ELSE IF has_project(ds, dir).some /\ load_at(ds, has_project(ds, dir).path).res = "Ok"
         THEN load_at(ds, has_project(ds, dir).path)
         ELSE load_project_rec_skip_bad(ds, dir - 1)

RECURSIVE load_project_rec(_, _)
\* load_project_rec(path): for p in path.ancestors(), return Project::load
\* of the first project file has_project finds; bail!("no project found")
\* after the root
load_project_rec(ds, dir) ==
    IF dir < 1 THEN [res |-> "NotFound", project |-> NoProject]
    ELSE IF has_project(ds, dir).some
         THEN load_at(ds, has_project(ds, dir).path)
         ELSE load_project_rec(ds, dir - 1)

\* fs::write can create or overwrite the entry
can_write(e) == e.kind = "none" \/ (e.kind = "file" /\ e.access)

-----------------------------------------------------------------------------
(* State machine *)

NoIndex == 0 - 1

\* what `last` records: operation, arguments, Result and returned value;
\* `project` is the Project returned by new_project and load_project_rec
Op(op, index, d, c, res, ret) ==
    [op |-> op, index |-> index, desc |-> d, completed |-> c,
     res |-> res, ret |-> ret, project |-> NoProject]

\* `last` for an operation of lib.rs on directory `dir`
LibOp(op, dir, r) ==
    [Op(op, dir, "", FALSE, r.res, NoIndex) EXCEPT !.project = r.project]

Snapshot ==
    [name |-> name, tasks |-> tasks, path |-> path, file |-> file, dirs |-> dirs]

\* a hand-edited project file: an index past the wrap threshold, the
\* threshold itself, and a small index
SampleFile ==
    Present(to_string_pretty("q", << Task("a", FALSE, WrapIndex + 1),
                                     Task("b", TRUE, WrapIndex),
                                     Task("a", FALSE, 3) >>))

\* a small project file, its index written with two digits
SmallFile == Present(to_string_pretty("q", << Task("b", TRUE, 67) >>))

\* the tasks of a hand-edited project file in which index 5 is written twice
DupTasks ==
    << Task("a", FALSE, 5), Task("b", TRUE, 5), Task("a", FALSE, 7) >>

DupFile == Present(to_string_pretty("q", DupTasks))

\* a file that is not a project file
GarbageFile == Present(<< Line("tasks", << >>) >>)

\* Project::new(project_file, steps, name), called with steps = 0
New(n) ==
    /\ name = n
    /\ tasks = << >>
    /\ path = ThePath
    /\ steps = 0
    /\ last = Op("new", NoIndex, "", FALSE, "Ok", NoIndex)
    /\ adds = 0
    /\ fromNew = TRUE

\* the processes of the two-process session
Procs == {1, 2}

\* a process that has not loaded the project yet
NotStarted == [pc |-> "start", name |-> "", tasks |-> << >>, buf |-> << >>, ops |-> 0]

\* Project::new with the backing file drawn from `files`
InitWith(files) ==
    /\ \E n \in Names : New(n)
    /\ file \in files
    /\ pre = Snapshot
    /\ procs = [p \in Procs |-> NotStarted]
    /\ writer = 0

Init == dirs = << >> /\ InitWith({SampleFile})

\* indices a caller may pass: every index in use, and one that a project
\* made by Project::new has not handed out
IndexInputs == {tasks[k].index : k \in 1..Len(tasks)} \cup {MaxAdds}

\* add() that writes the project back to its file by itself
AddOpAutosave(d, c) ==
    /\ tasks' = add(tasks, d, c)
    /\ adds' = adds + 1
    /\ file' = Present(save_content(name, add(tasks, d, c)))
    /\ last' = Op("add", NoIndex, d, c, "Ok", next_index(tasks))
    /\ pre' = Snapshot
    /\ UNCHANGED <<dirs, procs, writer, name, path, steps, fromNew>>

\* add(name, completed)
AddOp(d, c) ==
    /\ tasks' = add(tasks, d, c)
    /\ adds' = adds + 1
    /\ last' = Op("add", NoIndex, d, c, "Ok", next_index(tasks))
    /\ pre' = Snapshot
    /\ UNCHANGED <<dirs, procs, writer, name, path, steps, file, fromNew>>

Add ==
    /\ Len(tasks) < MaxTasks
    /\ adds < MaxAdds
    /\ \E d \in Descs, c \in BOOLEAN : AddOp(d, c)

\* remove(index)
RemoveOp(index) ==
    /\ tasks' = remove(tasks, index)
    /\ last' = Op("remove", index, "", FALSE, "Ok", NoIndex)
    /\ pre' = Snapshot
    /\ UNCHANGED <<dirs, procs, writer, name, path, steps, file, adds, fromNew>>

Remove == \E index \in IndexInputs : RemoveOp(index)

\* remove_all()
RemoveAll ==
    /\ tasks' = remove_all(tasks)
    /\ last' = Op("remove_all", NoIndex, "", FALSE, "Ok", NoIndex)
    /\ pre' = Snapshot
    /\ UNCHANGED <<dirs, procs, writer, name, path, steps, file, adds, fromNew>>

\* remove_completed()
RemoveCompleted ==
    /\ tasks' = remove_completed(tasks)
    /\ last' = Op("remove_completed", NoIndex, "", FALSE, "Ok", NoIndex)
    /\ pre' = Snapshot
    /\ UNCHANGED <<dirs, procs, writer, name, path, steps, file, adds, fromNew>>

\* mark_completion_all(completed)
MarkCompletionAll ==
    \E c \in BOOLEAN :
        /\ tasks' = mark_completion_all(tasks, c)
        /\ last' = Op("mark_completion_all", NoIndex, "", c, "Ok", NoIndex)
        /\ pre' = Snapshot
        /\ UNCHANGED <<dirs, procs, writer, name, path, steps, file, adds, fromNew>>

\* mark_completion(index, completed)
MarkCompletionOp(index, c) ==
    /\ tasks' = mark_completion(tasks, index, c)
    /\ last' = Op("mark_completion", index, "", c,
                  mark_completion_result(tasks, index), NoIndex)
    /\ pre' = Snapshot
    /\ UNCHANGED <<dirs, procs, writer, name, path, steps, file, adds, fromNew>>

MarkCompletion == \E index \in IndexInputs, c \in BOOLEAN : MarkCompletionOp(index, c)

\* get_task_mut(index), the reference only looked at
GetTaskMut ==
    \E index \in IndexInputs :
        /\ last' = Op("get_task_mut", index, "", FALSE,
                      IF get_task_mut(tasks, index) = 0 THEN "IndexNotFound" ELSE "Ok",
                      get_task_mut(tasks, index))
        /\ pre' = Snapshot
        /\ UNCHANGED <<dirs, procs, writer, name, tasks, path, steps, file, adds, fromNew>>

\* next_index()
NextIndex ==
    /\ last' = Op("next_index", NoIndex, "", FALSE, "Ok", next_index(tasks))
    /\ pre' = Snapshot
    /\ UNCHANGED <<dirs, procs, writer, name, tasks, path, steps, file, adds, fromNew>>

\* save() opening the file in append mode instead of truncating it
SaveAppend ==
    /\ file' = Present(file.text \o save_content(name, tasks))
    /\ last' = Op("save", NoIndex, "", FALSE, "Ok", NoIndex)
    /\ pre' = Snapshot
    /\ UNCHANGED <<dirs, procs, writer, name, tasks, path, steps, adds, fromNew>>

\* save() writing a sibling file and adopting it as the project's location
SaveRenames ==
    /\ path' = "/work/.tutel.toml.new"
    /\ file' = Present(save_content(name, tasks))
    /\ last' = Op("save", NoIndex, "", FALSE, "Ok", NoIndex)
    /\ pre' = Snapshot
    /\ UNCHANGED <<dirs, procs, writer, name, tasks, steps, adds, fromNew>>

\* save(): fs::write creates or truncates the file, then writes the content
SaveOk ==
    /\ file' = Present(save_content(name, tasks))
    /\ last' = Op("save", NoIndex, "", FALSE, "Ok", NoIndex)
    /\ pre' = Snapshot
    /\ UNCHANGED <<dirs, procs, writer, name, tasks, path, steps, adds, fromNew>>

\* save() when the file cannot be opened for writing
SaveOpenFails ==
    /\ last' = Op("save", NoIndex, "", FALSE, "IoError", NoIndex)
    /\ pre' = Snapshot
    /\ UNCHANGED <<dirs, procs, writer, name, tasks, path, steps, file, adds, fromNew>>

\* where a failing write stops: right after the file was truncated, or
\* before the last line
FailPoints(text) == {0, Len(text) - 1}

\* save() when the write fails after the file was truncated: k lines got out
SaveWriteFails ==
    \E k \in FailPoints(save_content(name, tasks)) :
        /\ file' = Present(SubSeq(save_content(name, tasks), 1, k))
        /\ last' = Op("save", NoIndex, "", FALSE, "IoError", NoIndex)
        /\ pre' = Snapshot
        /\ UNCHANGED <<dirs, procs, writer, name, tasks, path, steps, adds, fromNew>>

Save == SaveOk \/ SaveOpenFails \/ SaveWriteFails

\* Project::load(path, steps), called with steps = 0: on Ok the loaded
\* project replaces the one held
LoadOk ==
    LET r == load(file)
    IN  /\ r.res = "Ok"
        /\ name' = r.name
        /\ tasks' = r.tasks
        /\ steps' = 0
        /\ fromNew' = FALSE
        /\ last' = Op("load", NoIndex, "", FALSE, "Ok", NoIndex)
        /\ pre' = Snapshot
        /\ UNCHANGED <<dirs, procs, writer, path, file, adds>>

\* Project::load when the file cannot be read or parsed: no project is built
LoadFails ==
    LET r == load(file)
    IN  /\ r.res # "Ok"
        /\ last' = Op("load", NoIndex, "", FALSE, r.res, NoIndex)
        /\ pre' = Snapshot
        /\ UNCHANGED <<dirs, procs, writer, name, tasks, path, steps, file, adds, fromNew>>

Load == LoadOk \/ LoadFails

\* load_project_rec(path) for a directory of the chain
LoadProjectRec ==
    \E start \in 1..Len(dirs) :
        /\ last' = LibOp("load_project_rec", start, load_project_rec(dirs, start))
        /\ pre' = Snapshot
        /\ UNCHANGED <<dirs, procs, writer, name, tasks, path, steps, file, adds, fromNew>>

\* new_project(dir, name): Project::new, then save() writes the new file
NewProjectOk ==
    \E dir \in 1..Len(dirs), n \in Names :
        /\ can_write(dirs[dir])
        /\ dirs' = [dirs EXCEPT ![dir] = RegularFile(save_content(n, << >>))]
        /\ last' = LibOp("new_project", dir,
                         [res |-> "Ok", project |-> ProjectValue(n, << >>, Join(dir), 0)])
        /\ pre' = Snapshot
        /\ UNCHANGED <<procs, writer, name, tasks, path, steps, file, adds, fromNew>>

\* new_project(dir, name) when save() cannot write: the error is returned
NewProjectFails ==
    \E dir \in 1..Len(dirs), n \in Names :
        /\ ~can_write(dirs[dir])
        /\ last' = LibOp("new_project", dir, [res |-> "IoError", project |-> NoProject])
        /\ pre' = Snapshot
        /\ UNCHANGED <<dirs, procs, writer, name, tasks, path, steps, file, adds, fromNew>>

NewProject == NewProjectOk \/ NewProjectFails

Next ==
    \/ Add
    \/ Remove
    \/ RemoveAll
    \/ RemoveCompleted
    \/ MarkCompletionAll
    \/ MarkCompletion
    \/ GetTaskMut
    \/ NextIndex
    \/ LoadOk

\* The operations on the task list, on a project made by Project::new or
\* loaded from SampleFile.
Spec == Init /\ [][Next]_vars

-----------------------------------------------------------------------------
(* A long session: a project made by Project::new whose user keeps the     *)
(* oldest task, toggles it, and removes the second-oldest task whenever    *)
(* three are listed.  It walks the whole index space up to the wrap.       *)

InitLong == dirs = << >> /\ InitWith({Absent})

AddLong ==
    /\ Len(tasks) < LongMaxTasks
    /\ adds < LongMaxAdds
    /\ AddOp("a", FALSE)

RemoveLong ==
    /\ Len(tasks) >= 3
    /\ RemoveOp(tasks[2].index)

MarkLong ==
    /\ Len(tasks) >= 1
    /\ \E c \in BOOLEAN : MarkCompletionOp(tasks[1].index, c)

NextLong == AddLong \/ RemoveLong \/ MarkLong

SpecLong == InitLong /\ [][NextLong]_vars

-----------------------------------------------------------------------------
(* The project and its backing file: every operation, save() and load()    *)
(* with their failures, on smaller task lists.                             *)

\* a directory chain outside the project's own: the root without an entry
\* of the reserved name, below it a directory holding a subdirectory of
\* that name
FileDirs == << NoEntry, SubDir >>

InitFile == dirs = FileDirs /\ InitWith({Absent, GarbageFile, SmallFile})

AddFile ==
    /\ adds < FileMaxAdds
    /\ \E c \in BOOLEAN : AddOp("a", c)

NextFile ==
    \/ AddFile
    \/ Remove
    \/ RemoveAll
    \/ RemoveCompleted
    \/ MarkCompletionAll
    \/ MarkCompletion
    \/ GetTaskMut
    \/ NextIndex
    \/ Save
    \/ Load
    \/ LoadProjectRec

SpecFile == InitFile /\ [][NextFile]_vars

-----------------------------------------------------------------------------
(* A session on a project file that repeats an index *)

InitDup == dirs = << >> /\ InitWith({DupFile})

NextDup ==
    \/ LoadOk
    \/ Remove
    \/ RemoveCompleted
    \/ MarkCompletion
    \/ GetTaskMut
    \/ NextIndex

SpecDup == InitDup /\ [][NextDup]_vars

-----------------------------------------------------------------------------
(* The functions of lib.rs on every directory chain up to MaxDirs deep *)

DirEntries ==
    {NoEntry, SubDir, LockedFile, RegularFile(GarbageFile.text),
     RegularFile(SmallFile.text)}

Chains == UNION {[1..n -> DirEntries] : n \in 1..MaxDirs}

InitDisc ==
    /\ \E n \in Names : New(n)
    /\ file = Absent
    /\ dirs \in Chains
    /\ pre = Snapshot
    /\ procs = [p \in Procs |-> NotStarted]
    /\ writer = 0

NextDisc ==
    \/ LoadProjectRec
    \/ NewProject

SpecDisc == InitDisc /\ [][NextDisc]_vars

-----------------------------------------------------------------------------
(* Two processes on one backing file.  Each loads the file, changes its    *)
(* own project and saves.  save() is fs::write on the file itself: opening *)
(* truncates the file, then the buffer is written from offset 0; the two   *)
(* are separate steps of the process, and the steps of the two processes   *)
(* interleave freely.  The unit of the file is the line.                    *)

\* a write of `buf` at offset 0 into a file holding `text`, with no
\* truncation in between
write_at_start(text, buf) == buf \o SubSeq(text, Len(buf) + 1, Len(text))

\* Project::load(path, 0) in process p
ProcLoad(p) ==
    LET r == load(file)
    IN  /\ procs[p].pc = "start"
        /\ r.res = "Ok"
        /\ procs' = [procs EXCEPT ![p].pc = "loaded", ![p].name = r.name,
                                  ![p].tasks = r.tasks]
        /\ UNCHANGED <<name, tasks, path, steps, file, last, pre, adds, fromNew,
                       dirs, writer>>

\* the lists one mutating call can make of ts
Mutations(ts) ==
    {add(ts, d, c) : d \in Descs, c \in BOOLEAN}
        \cup {remove(ts, ts[k].index) : k \in 1..Len(ts)}
        \cup {mark_completion(ts, ts[k].index, c) : k \in 1..Len(ts), c \in BOOLEAN}
        \cup {remove_completed(ts)}

\* add, remove, mark_completion or remove_completed in process p
ProcMutate(p) ==
    \E ts \in Mutations(procs[p].tasks) :
        /\ procs[p].pc = "loaded"
        /\ procs[p].ops < MaxProcOps
        /\ procs' = [procs EXCEPT ![p].tasks = ts, ![p].ops = procs[p].ops + 1]
        /\ UNCHANGED <<name, tasks, path, steps, file, last, pre, adds, fromNew,
                       dirs, writer>>

\* save() in process p, first part: the content is serialized, fs::write
\* opens the file and truncates it
ProcSaveOpen(p) ==
    /\ procs[p].pc = "loaded"
    /\ procs' = [procs EXCEPT ![p].pc = "writing",
                              ![p].buf = save_content(procs[p].name, procs[p].tasks)]
    /\ file' = Present(<< >>)
    /\ UNCHANGED <<name, tasks, path, steps, last, pre, adds, fromNew, dirs, writer>>

\* save() in process p, second part: fs::write writes the buffer and save()
\* returns Ok
ProcSaveWrite(p) ==
    /\ procs[p].pc = "writing"
    /\ procs' = [procs EXCEPT ![p].pc = "saved"]
    /\ file' = Present(write_at_start(file.text, procs[p].buf))
    /\ writer' = p
    /\ UNCHANGED <<name, tasks, path, steps, last, pre, adds, fromNew, dirs>>

InitTwo == dirs = << >> /\ InitWith({SmallFile})

NextTwo ==
    \E p \in Procs :
        \/ ProcLoad(p)
        \/ ProcMutate(p)
        \/ ProcSaveOpen(p)
        \/ ProcSaveWrite(p)

SpecTwo == InitTwo /\ [][NextTwo]_vars

-----------------------------------------------------------------------------
(* Properties *)

Indices(ts) == {ts[k].index : k \in 1..Len(ts)}

NoDuplicateIndex(ts) ==
    \A i, j \in 1..Len(ts) : i # j => ts[i].index # ts[j].index

\* the largest index in a non-empty task list
MaxIndex(ts) == CHOOSE m \in Indices(ts) : \A i \in Indices(ts) : i <= m

\* C1: in a project that started from Project::new, after any sequence of
\* add, remove, remove_all, remove_completed, mark_completion and
\* mark_completion_all, no two tasks have the same index.
C1_UniqueIndices == fromNew => NoDuplicateIndex(tasks)

\* C2: next_index() returns 0 on an empty list, 0 when the largest index
\* present is WrapIndex (999) or more, and the largest index plus 1 otherwise;
\* so it never returns an index below the largest one (no gap is filled).
C2_NextIndex ==
    last.op = "next_index" =>
        /\ tasks = << >> => last.ret = 0
        /\ (tasks # << >> /\ MaxIndex(tasks) >= 999) => last.ret = 0
        /\ (tasks # << >> /\ MaxIndex(tasks) < 999) => last.ret = MaxIndex(tasks) + 1

\* C2 witness: next_index() was called with indices {0, 2} and returned 3
C2_Witness ==
    /\ last.op = "next_index"
    /\ Indices(tasks) = {0, 2}
    /\ last.ret = 3

\* C3: while at most 1000 (WrapIndex + 1) add() calls were made on a project
\* that started from Project::new, all task indices are pairwise distinct.
C3_NoCollisionBefore1000Adds ==
    (fromNew /\ adds <= WrapIndex + 1) => NoDuplicateIndex(tasks)

\* C3 witness: the 1000th add() has handed out index 999 while index 0 is
\* still listed
C3_Witness ==
    /\ fromNew
    /\ adds = WrapIndex + 1
    /\ last.op = "add"
    /\ last.ret = WrapIndex
    /\ {0, WrapIndex} \subseteq Indices(tasks)
    /\ NoDuplicateIndex(tasks)

\* how often task t occurs in ts
Count(ts, t) == Cardinality({k \in 1..Len(ts) : ts[k] = t})

\* same task, whatever its completed flag
SameTask(t, u) == t.desc = u.desc /\ t.index = u.index

RECURSIVE Embeds(_, _, _, _)
\* small[i..] occurs in big[j..] in the same order (flags aside)
Embeds(small, i, big, j) ==
    IF i > Len(small) THEN TRUE
    ELSE IF j > Len(big) THEN FALSE
    ELSE IF SameTask(small[i], big[j]) THEN Embeds(small, i + 1, big, j + 1)
    ELSE Embeds(small, i, big, j + 1)

RemovedPresent == last.op = "remove" /\ last.index \in Indices(pre.tasks)

\* C4: after remove(i) on a project holding a task with index i, no task
\* with index i remains, get_task_mut(i) and mark_completion(i, _) fail with
\* the index-not-found error, and every task with another index is still
\* there with the same description, flag and index.
C4_RemoveSemantics ==
    RemovedPresent =>
        /\ \A k \in 1..Len(tasks) : tasks[k].index # last.index
        /\ get_task_mut(tasks, last.index) = 0
        /\ mark_completion_result(tasks, last.index) = "IndexNotFound"
        /\ \A c \in BOOLEAN : mark_completion(tasks, last.index, c) = tasks
        /\ \A k \in 1..Len(pre.tasks) :
              pre.tasks[k].index # last.index =>
                  Count(tasks, pre.tasks[k]) = Count(pre.tasks, pre.tasks[k])

\* C4 witness: the middle one of three tasks was removed, two are left
C4_Witness ==
    /\ RemovedPresent
    /\ Len(pre.tasks) = 3
    /\ pre.tasks[2].index = last.index
    /\ Len(tasks) = 2

AllBelowWrap(ts) == \A i \in Indices(ts) : i < 999

\* the index the next add() would assign
NextAssigned(ts) == add(ts, "a", FALSE)[Len(ts) + 1].index

\* C5 as claimed: with all indices below 999, after remove(i) of an existing
\* task next_index() does not return i and the next add() is not given i,
\* whichever task was removed.
C5_NoReuseAnyTask ==
    (RemovedPresent /\ AllBelowWrap(pre.tasks)) =>
        /\ next_index(tasks) # last.index
        /\ NextAssigned(tasks) # last.index

\* C5 amended: with all indices below 999, after remove(i) of an existing
\* task, next_index() does not return i and the next add() is not given i
\* as long as a task with an index above i remains; i is handed out again
\* exactly when it is one above the highest remaining index, or is 0 and no
\* task remains.
C5_NoReuseBelowHighest ==
    (RemovedPresent /\ AllBelowWrap(pre.tasks)) =>
        /\ (\E k \in 1..Len(tasks) : tasks[k].index > last.index) =>
               /\ next_index(tasks) # last.index
               /\ NextAssigned(tasks) # last.index
        /\ next_index(tasks) = last.index <=>
               \/ tasks = << >> /\ last.index = 0
               \/ tasks # << >> /\ MaxIndex(tasks) + 1 = last.index
        /\ NextAssigned(tasks) = next_index(tasks)

\* C5 witness: index 0 was removed from {0, 1}; the next index is 2
C5_Witness ==
    /\ RemovedPresent
    /\ Indices(pre.tasks) = {0, 1}
    /\ last.index = 0
    /\ next_index(tasks) = 2

\* C6: remove(index) with an index no task has returns success and leaves
\* the project as it was: same tasks in the same order with the same
\* fields, same name, same location.
C6_RemoveAbsentNoOp ==
    (last.op = "remove" /\ last.index \notin Indices(pre.tasks)) =>
        /\ last.res = "Ok"
        /\ tasks = pre.tasks
        /\ name = pre.name
        /\ path = pre.path
        /\ file = pre.file

\* C6 witness: remove of an absent index on a project with two tasks or more
C6_Witness ==
    /\ last.op = "remove"
    /\ last.index \notin Indices(pre.tasks)
    /\ Len(pre.tasks) >= 2

\* C7: remove_completed() leaves exactly the tasks whose flag was false,
\* unchanged and in their original order; every task whose flag was true is
\* gone, so looking up its index afterwards fails.
C7_RemoveCompleted ==
    last.op = "remove_completed" =>
        /\ \A k \in 1..Len(tasks) : ~tasks[k].completed
        /\ \A k \in 1..Len(pre.tasks) :
              ~pre.tasks[k].completed =>
                  Count(tasks, pre.tasks[k]) = Count(pre.tasks, pre.tasks[k])
        /\ Embeds(tasks, 1, pre.tasks, 1)
        /\ \A k \in 1..Len(pre.tasks) :
              pre.tasks[k].completed => get_task_mut(tasks, pre.tasks[k].index) = 0

OrderKeepingOps ==
    {"remove", "remove_all", "remove_completed", "mark_completion",
     "mark_completion_all", "save", "get_task_mut", "next_index"}

\* C8: the task sequence is in insertion order: add() puts the new task
\* after all existing ones, and remove, remove_completed, mark_completion,
\* mark_completion_all and save keep the relative order of the tasks that
\* are there before and after.
C8_InsertionOrder ==
    /\ last.op = "add" =>
          /\ Len(tasks) = Len(pre.tasks) + 1
          /\ SubSeq(tasks, 1, Len(pre.tasks)) = pre.tasks
    /\ last.op \in OrderKeepingOps =>
          /\ Len(tasks) <= Len(pre.tasks)
          /\ Embeds(tasks, 1, pre.tasks, 1)

\* C8 witness: the first of three tasks was removed, the other two are left
C8_Witness ==
    /\ RemovedPresent
    /\ Len(pre.tasks) = 3
    /\ pre.tasks[1].index = last.index
    /\ tasks = << pre.tasks[2], pre.tasks[3] >>

\* C9: mark_completion(index, completed) on a project with a task of that
\* index sets that task's flag (the first such task in the list) to the
\* given value and changes nothing else; with no task of that index it
\* returns the index-not-found error and leaves every task as it was.
C9_MarkCompletion ==
    last.op = "mark_completion" =>
        /\ name = pre.name /\ path = pre.path /\ file = pre.file
        /\ Len(tasks) = Len(pre.tasks)
        /\ IF last.index \in Indices(pre.tasks)
           THEN /\ last.res = "Ok"
                /\ \E p \in 1..Len(tasks) :
                      /\ pre.tasks[p].index = last.index
                      /\ \A q \in 1..(p - 1) : pre.tasks[q].index # last.index
                      /\ tasks[p].completed = last.completed
                      /\ SameTask(tasks[p], pre.tasks[p])
                      /\ \A q \in 1..Len(tasks) : q # p => tasks[q] = pre.tasks[q]
           ELSE /\ last.res = "IndexNotFound"
                /\ tasks = pre.tasks

\* C9 witness: a completed task among others was marked not completed
C9_Witness ==
    /\ last.op = "mark_completion"
    /\ last.res = "Ok"
    /\ ~last.completed
    /\ tasks # pre.tasks
    /\ Len(tasks) >= 2

\* C10: loading the file a successful save() wrote yields the same name and
\* the same task sequence: same length, same order, same description, flag
\* and index for every task.
C10_SaveLoadRoundTrip ==
    (last.op = "save" /\ last.res = "Ok") =>
        /\ load(file).res = "Ok"
        /\ load(file).name = name
        /\ Len(load(file).tasks) = Len(tasks)
        /\ \A k \in 1..Len(tasks) :
              /\ load(file).tasks[k].desc = tasks[k].desc
              /\ load(file).tasks[k].completed = tasks[k].completed
              /\ load(file).tasks[k].index = tasks[k].index

\* C10 witness: a project with two tasks or more, a completed one, an open
\* one and an index of two digits, was saved over an existing file
C10_Witness ==
    /\ last.op = "save"
    /\ last.res = "Ok"
    /\ pre.file.exists
    /\ Len(tasks) >= 2
    /\ \E k \in 1..Len(tasks) : tasks[k].completed /\ tasks[k].index >= 10
    /\ \E k \in 1..Len(tasks) : ~tasks[k].completed

\* C11: a save() that fails never leaves a partial or garbled file: after
\* a failed save the file holds either the complete new content or exactly
\* the content it had before the call.
C11_FailedSaveKeepsFile ==
    (last.op = "save" /\ last.res # "Ok") =>
        \/ file = pre.file
        \/ file = Present(save_content(name, tasks))

\* C16: the location of a project is the one given at construction, in
\* every later state: no operation changes it, save() included; and a
\* successful save() leaves the name and the task list in memory as they
\* were.
C16_LocationFixed ==
    /\ path = ThePath
    /\ path = pre.path
    /\ (last.op = "save" /\ last.res = "Ok") =>
          /\ name = pre.name
          /\ tasks = pre.tasks

\* C16 witness: a project with tasks was saved to a file that held something
\* else; location, name and tasks are what they were
C16_Witness ==
    /\ last.op = "save"
    /\ last.res = "Ok"
    /\ file # pre.file
    /\ tasks # << >>
    /\ tasks = pre.tasks
    /\ path = pre.path

\* C17: mark_completion_all(c) sets the flag of every task to c, succeeds
\* on an empty list too, and leaves the number of tasks, their order,
\* indices and descriptions as they were; applying it again with the same
\* c changes nothing.
C17_MarkCompletionAll ==
    last.op = "mark_completion_all" =>
        /\ last.res = "Ok"
        /\ name = pre.name /\ path = pre.path /\ file = pre.file
        /\ Len(tasks) = Len(pre.tasks)
        /\ \A k \in 1..Len(tasks) :
              /\ tasks[k].completed = last.completed
              /\ SameTask(tasks[k], pre.tasks[k])
        /\ mark_completion_all(tasks, last.completed) = tasks

\* C17 witness: three tasks, the last one open and another one completed,
\* were all marked completed
C17_Witness ==
    /\ last.op = "mark_completion_all"
    /\ last.completed
    /\ Len(pre.tasks) = 3
    /\ ~pre.tasks[3].completed
    /\ \E k \in 1..2 : pre.tasks[k].completed
    /\ \A k \in 1..3 : tasks[k].completed

\* C19: in a project that started from Project::new, after any sequence of
\* operations every task index is in 0..999 and next_index() returns a
\* value in 0..999.
C19_IndexRange ==
    fromNew =>
        /\ \A k \in 1..Len(tasks) : tasks[k].index \in 0..999
        /\ next_index(tasks) \in 0..999
        /\ last.op \in {"add", "next_index"} => last.ret \in 0..999

\* C19 witness: with index 999 in the list add() was given index 0, and
\* next_index() is 0 again
C19_Witness ==
    /\ fromNew
    /\ last.op = "add"
    /\ 999 \in Indices(pre.tasks)
    /\ last.ret = 0
    /\ next_index(tasks) = 0

\* some task of ts has an index of WrapIndex or more
HoldsWrapIndex(ts) == \E k \in 1..Len(ts) : ts[k].index >= WrapIndex

FirstWith(ts, index) ==
    CHOOSE p \in 1..Len(ts) :
        /\ ts[p].index = index
        /\ \A q \in 1..(p - 1) : ts[q].index # index

\* C18: load accepts a file in which several tasks have the same index and
\* keeps every stored task with its stored index, in the stored order. On
\* such a project mark_completion(i, c) and get_task_mut(i) act on the
\* first task with index i in list order only, and remove(i) deletes every
\* task with index i.
C18_DuplicateIndices ==
    /\ (last.op = "load" /\ last.res = "Ok" /\ pre.file = DupFile) =>
          tasks = DupTasks
    /\ (last.op = "mark_completion" /\ last.index \in Indices(pre.tasks)) =>
          /\ last.res = "Ok"
          /\ tasks = [pre.tasks EXCEPT
                ![FirstWith(pre.tasks, last.index)].completed = last.completed]
    /\ (last.op = "get_task_mut" /\ last.index \in Indices(pre.tasks)) =>
          /\ last.res = "Ok"
          /\ last.ret = FirstWith(pre.tasks, last.index)
          /\ tasks = pre.tasks
    /\ last.op = "remove" =>
          /\ last.index \notin Indices(tasks)
          /\ Len(tasks) = Cardinality({k \in 1..Len(pre.tasks) :
                                          pre.tasks[k].index # last.index})
          /\ Embeds(tasks, 1, pre.tasks, 1)
          /\ \A k \in 1..Len(tasks) : Count(pre.tasks, tasks[k]) >= 1

\* C18 witness: of two tasks with index 5, loaded from a file,
\* mark_completion(5, false) has reopened the first and left the second
\* completed
C18_Witness ==
    /\ ~fromNew
    /\ last.op = "mark_completion"
    /\ last.index = 5
    /\ ~last.completed
    /\ Len(tasks) = 3
    /\ tasks[1].index = 5 /\ tasks[2].index = 5
    /\ pre.tasks[1].completed /\ ~tasks[1].completed
    /\ tasks[2].completed

\* C18 second witness: remove(5) has deleted both tasks with index 5
C18_RemoveWitness ==
    /\ last.op = "remove"
    /\ last.index = 5
    /\ pre.tasks = DupTasks
    /\ Len(tasks) = 1

\* the directories at or above `start` that hold a regular file named
\* PROJECT_FILE_NAME
Hits(ds, start) == {d \in 1..start : ds[d].kind = "file"}

\* the one of them nearest to `start` (there is one)
Nearest(ds, start) ==
    CHOOSE d \in Hits(ds, start) : \A e \in Hits(ds, start) : e <= d

\* C12: load_project_rec(start_dir) looks at start_dir first and then at
\* each ancestor towards the root, loads the project file of the first
\* directory that holds one, and the project it returns carries as depth
\* the number of parent hops taken (0 for start_dir, 2 for the
\* grandparent); with no project file up to the root it fails with the
\* not-found error.
C12_Discovery ==
    last.op = "load_project_rec" =>
        IF Hits(dirs, last.index) = {}
        THEN last.res = "NotFound"
        ELSE LET d == Nearest(dirs, last.index)
                 r == load(read_entry(dirs[d]))
             IN  /\ last.res = r.res
                 /\ r.res = "Ok" =>
                       /\ last.project.name = r.name
                       /\ last.project.tasks = r.tasks
                       /\ last.project.path = Join(d)
                       /\ last.project.steps = last.index - d

\* C13: when the nearest directory on the way up that holds a project file
\* holds one that cannot be read or parsed, load_project_rec returns that
\* load error: not the not-found error, and not the project of a farther
\* ancestor.
C13_BadFileStopsSearch ==
    (/\ last.op = "load_project_rec"
     /\ Hits(dirs, last.index) # {}
     /\ load(read_entry(dirs[Nearest(dirs, last.index)])).res # "Ok") =>
        /\ last.res = load(read_entry(dirs[Nearest(dirs, last.index)])).res
        /\ last.res \in {"IoError", "ParseError"}
        /\ last.project = NoProject

\* C13 witness: the search started two levels below a valid project file,
\* met an unparsable one in between and returned the parse error
C13_Witness ==
    /\ last.op = "load_project_rec"
    /\ last.index = 3
    /\ dirs[3] = NoEntry
    /\ dirs[2] = RegularFile(GarbageFile.text)
    /\ dirs[1] = RegularFile(SmallFile.text)
    /\ last.res = "ParseError"

\* the operations of Project other than save()
NonSavingOps ==
    {"new", "load", "add", "remove", "remove_all", "remove_completed",
     "mark_completion", "mark_completion_all", "get_task_mut", "next_index"}

\* C14: the content of the backing file changes only during save():
\* Project::new, add, remove, remove_all, remove_completed, mark_completion,
\* mark_completion_all, get_task_mut and next_index leave the file as it
\* was, and the upward search creates no project file.
C14_PersistenceExplicit ==
    /\ file # pre.file => last.op = "save"
    /\ last.op \in NonSavingOps => (file = pre.file /\ dirs = pre.dirs)
    /\ last.op = "load_project_rec" => (file = pre.file /\ dirs = pre.dirs)

\* C14 witness: a task was added to a saved project and the file still
\* holds the project without it
C14_Witness ==
    /\ last.op = "add"
    /\ file = pre.file
    /\ load(file).res = "Ok"
    /\ load(file).tasks = pre.tasks
    /\ load(file).tasks # tasks

\* C14 second witness: a search that found nothing left the directories
\* without a project file
C14_SearchWitness ==
    /\ last.op = "load_project_rec"
    /\ last.res = "NotFound"
    /\ \A d \in 1..Len(dirs) : dirs[d].kind # "file"

\* C15: when two processes each load the same backing file, change their
\* own project and save, in any interleaving, the file after both saves
\* holds exactly the state of the process that saved last: the changes of
\* the earlier saver are absent, nothing is merged, and no save fails.
C15_LastWriterWins ==
    (\A p \in Procs : procs[p].pc = "saved") =>
        /\ file = Present(save_content(procs[writer].name, procs[writer].tasks))
        /\ load(file).res = "Ok"
        /\ load(file).name = procs[writer].name
        /\ load(file).tasks = procs[writer].tasks

====
